---- MODULE Spec2Model ----
(***************************************************************************)
(* Model of the Bradshaw dwell-time dashboard: the three source cleaners   *)
(* (cleaning_utils.py) and the upload/clean/join pipeline with its session *)
(* state (app.py).                                                         *)
(*                                                                         *)
(* Representation.  A text is a sequence of one-character strings.  A CSV  *)
(* cell is <<>> when blank (pandas NaN/NaT) and <<v>> when it holds v: a   *)
(* text, or a time in minutes since midnight of the first day.  A dwell    *)
(* time is kept in hundredths of an hour (round(.., 2)).                   *)
(***************************************************************************)
EXTENDS Integers, Sequences, FiniteSets, TLC

VARIABLES open_dock, open_order, trailer_activity,
          cleaned_open_dock, cleaned_open_order, cleaned_trailer_activity,
          session, prior, result, outcome, calls, warned

vars == <<open_dock, open_order, trailer_activity,
          cleaned_open_dock, cleaned_open_order, cleaned_trailer_activity,
          session, prior, result, outcome, calls, warned>>

----------------------------------------------------------------------------
(* Cells and texts *)

NaN == <<>>

notna(c) == c # NaN

Digits == <<"0", "1", "2", "3", "4", "5", "6", "7", "8", "9">>

IsDigit(ch) == \E i \in 1..10 : Digits[i] = ch

DigitCode(ch) == CHOOSE i \in 1..10 : Digits[i] = ch

IsSpace(ch) == ch \in {" ", "\n", "\t"}

\* astype(str): a blank cell becomes the text "nan"
astype_str(c) == IF c = NaN THEN <<"n", "a", "n">> ELSE c[1]

RECURSIVE lstrip(_)
lstrip(s) ==
    IF s # <<>> /\ IsSpace(Head(s)) THEN lstrip(Tail(s)) ELSE s

RECURSIVE rstrip(_)
rstrip(s) ==
    IF s # <<>> /\ IsSpace(s[Len(s)]) THEN rstrip(SubSeq(s, 1, Len(s) - 1)) ELSE s

\* str.strip()
strip(s) == lstrip(rstrip(s))

LowerOf(ch) ==
    CASE ch = "S" -> "s" [] ch = "H" -> "h" [] ch = "I" -> "i" [] ch = "P" -> "p"
      [] ch = "E" -> "e" [] ch = "D" -> "d" [] ch = "O" -> "o" [] ch = "N" -> "n"
      [] OTHER -> ch

\* str.lower()
lower(s) == [i \in 1..Len(s) |-> LowerOf(s[i])]

\* str.replace(',', '')
RemoveCommas(s) == SelectSeq(s, LAMBDA ch : ch # ",")

RECURSIVE DigitRun(_)
DigitRun(s) ==
    IF s # <<>> /\ IsDigit(Head(s)) THEN <<Head(s)>> \o DigitRun(Tail(s)) ELSE <<>>

RECURSIVE FirstDigitRun(_)
\* str.extract(r'(\d+)').fillna(''): the first run of digits, '' when there is none
FirstDigitRun(s) ==
    IF s = <<>> THEN <<>>
    ELSE IF IsDigit(Head(s)) THEN DigitRun(s)
    ELSE FirstDigitRun(Tail(s))

\* the Shipment Nbr / SHIPMENT_ID cleaning of both cleaners
CleanShipmentId(c) == FirstDigitRun(RemoveCommas(astype_str(c)))

RECURSIVE StrLess(_, _)
\* a < b for digit texts, as Python compares str (character by character)
StrLess(a, b) ==
    IF b = <<>> THEN FALSE
    ELSE IF a = <<>> THEN TRUE
    ELSE IF Head(a) = Head(b) THEN StrLess(Tail(a), Tail(b))
    ELSE DigitCode(Head(a)) < DigitCode(Head(b))

\* pd.to_datetime(errors='coerce'): a blank or unparseable text is NaT
Unparseable == 0 - 1

to_datetime(c) == IF c = NaN \/ c[1] = Unparseable THEN NaN ELSE c

\* ser.str on a column that read_csv typed float64 (every cell blank, at least
\* one row) raises AttributeError
StrAccessorFails(rows, col) ==
    Len(rows) > 0 /\ \A i \in 1..Len(rows) : rows[i][col] = NaN

----------------------------------------------------------------------------
(* clean_open_order *)

\* mutant: the Order Status filter of line 92 is left out
OrderEligible_AnyStatus(r) ==
    /\ to_datetime(r.appt) # NaN
    /\ strip(astype_str(r.so)) # <<>>

\* rows that survive the appointment, SO # and Order Status filters, renamed
OrderEligible(r) ==
    /\ to_datetime(r.appt) # NaN
    /\ strip(astype_str(r.so)) # <<>>
    /\ r.status # NaN
    /\ lower(strip(r.status[1])) = <<"s", "h", "i", "p", "p", "e", "d">>

OrderRenamed(r) ==
    [appt |-> to_datetime(r.appt)[1],
     so   |-> strip(astype_str(r.so)),
     ship |-> CleanShipmentId(r.ship)]

\* mutant: the appointment is sorted ascending
OrderBefore_Ascending(a, b) ==
    \/ a.appt < b.appt
    \/ a.appt = b.appt /\ StrLess(a.ship, b.ship)

\* sort_values(by=['Appt DateTime', 'Shipment ID'], ascending=[False, True])
OrderBefore(a, b) ==
    \/ a.appt > b.appt
    \/ a.appt = b.appt /\ StrLess(a.ship, b.ship)

RECURSIVE OrderInsert(_, _)
OrderInsert(x, sorted) ==
    IF sorted = <<>> THEN <<x>>
    ELSE IF OrderBefore(x, Head(sorted)) THEN <<x>> \o sorted
    ELSE <<Head(sorted)>> \o OrderInsert(x, Tail(sorted))

\* mutant: the sort of line 99 is left out
OrderSort_InputOrder(s) == s

RECURSIVE OrderSort(_)
\* stable: rows with equal keys keep their input order
OrderSort(s) ==
    IF s = <<>> THEN <<>>
    ELSE OrderInsert(s[Len(s)], OrderSort(SubSeq(s, 1, Len(s) - 1)))

RECURSIVE DropDupShip(_, _)
\* drop_duplicates(subset='Shipment ID', keep='first')
DropDupShip(s, seen) ==
    IF s = <<>> THEN <<>>
    ELSE IF Head(s).ship \in seen THEN DropDupShip(Tail(s), seen)
    ELSE <<Head(s)>> \o DropDupShip(Tail(s), seen \cup {Head(s).ship})

RECURSIVE DropDupSO(_, _)
\* drop_duplicates(subset='SO Number', keep='first')
DropDupSO(s, seen) ==
    IF s = <<>> THEN <<>>
    ELSE IF Head(s).so \in seen THEN DropDupSO(Tail(s), seen)
    ELSE <<Head(s)>> \o DropDupSO(Tail(s), seen \cup {Head(s).so})

\* mutant: the second drop_duplicates is left out
OrderDedup_ShipOnly(s) == DropDupShip(s, {})

OrderDedup(s) == DropDupSO(DropDupShip(s, {}), {})

\* lines 75 and 92 use .str on the columns as read_csv typed them
OrderRaises(rows) ==
    \/ StrAccessorFails(rows, "appt")
    \/ StrAccessorFails(rows, "status")

clean_open_order(rows) ==
    IF OrderRaises(rows) THEN [raised |-> TRUE, rows |-> <<>>]
    ELSE LET kept    == SelectSeq(rows, OrderEligible)
             renamed == [i \in 1..Len(kept) |-> OrderRenamed(kept[i])]
         IN  [raised |-> FALSE, rows |-> OrderDedup(OrderSort(renamed))]

----------------------------------------------------------------------------
(* clean_trailer_activity *)

GraceLiveLoad == 15

GracePickup == 1440

MinutesPerDay == 1440

\* mutant: the ACTIVITY TYPE filter is left out
TrailerEligible_AnyActivity(r) ==
    /\ r.visit \in {<<"Pickup Load">>, <<"Live Load">>}
    /\ CleanShipmentId(r.ship) # <<>>
    /\ to_datetime(r.appt) # NaN
    /\ to_datetime(r.checkout) # NaN
    /\ to_datetime(r.checkin) # NaN

\* rows that survive the ACTIVITY TYPE, VISIT TYPE, SHIPMENT_ID and dropna filters
TrailerEligible(r) ==
    /\ r.activity = <<"CLOSED">>
    /\ r.visit \in {<<"Pickup Load">>, <<"Live Load">>}
    /\ CleanShipmentId(r.ship) # <<>>
    /\ to_datetime(r.appt) # NaN
    /\ to_datetime(r.checkout) # NaN
    /\ to_datetime(r.checkin) # NaN

TrailerParsed(r) ==
    [checkin  |-> to_datetime(r.checkin)[1],
     appt     |-> to_datetime(r.appt)[1],
     checkout |-> to_datetime(r.checkout)[1],
     carrier  |-> r.carrier,
     visit    |-> r.visit[1],
     loaded   |-> to_datetime(r.loaded),
     ship     |-> CleanShipmentId(r.ship)]

\* mutant: NaT sorts first
TrailerBefore_NaTFirst(a, b) ==
    \/ a.loaded = NaN /\ b.loaded # NaN
    \/ a.loaded # NaN /\ b.loaded # NaN /\ a.loaded[1] > b.loaded[1]
    \/ a.loaded = b.loaded /\ StrLess(a.ship, b.ship)

\* sort_values(by=['Date/Time', 'SHIPMENT_ID'], ascending=[False, True]); NaT sorts last
TrailerBefore(a, b) ==
    \/ a.loaded # NaN /\ b.loaded = NaN
    \/ a.loaded # NaN /\ b.loaded # NaN /\ a.loaded[1] > b.loaded[1]
    \/ a.loaded = b.loaded /\ StrLess(a.ship, b.ship)

RECURSIVE TrailerInsert(_, _)
TrailerInsert(x, sorted) ==
    IF sorted = <<>> THEN <<x>>
    ELSE IF TrailerBefore(x, Head(sorted)) THEN <<x>> \o sorted
    ELSE <<Head(sorted)>> \o TrailerInsert(x, Tail(sorted))

RECURSIVE TrailerSort(_)
TrailerSort(s) ==
    IF s = <<>> THEN <<>>
    ELSE TrailerInsert(s[Len(s)], TrailerSort(SubSeq(s, 1, Len(s) - 1)))

RECURSIVE TrailerDedup(_, _)
\* drop_duplicates(subset='SHIPMENT_ID', keep='first')
TrailerDedup(s, seen) ==
    IF s = <<>> THEN <<>>
    ELSE IF Head(s).ship \in seen THEN TrailerDedup(Tail(s), seen)
    ELSE <<Head(s)>> \o TrailerDedup(Tail(s), seen \cup {Head(s).ship})

required_time(row) ==
    IF row.visit = "Live Load" THEN row.appt + GraceLiveLoad
    ELSE row.appt + GracePickup

\* mutant: a checkin at the required time counts as late
compliance_StrictlyBefore(checkin, required) ==
    IF notna(<<checkin>>) /\ required > checkin THEN "On Time" ELSE "Late"

compliance(checkin, required) ==
    IF notna(<<checkin>>) /\ required >= checkin THEN "On Time" ELSE "Late"

\* the calendar starts on Monday 2024-01-01: day 0 is in ISO week 1
ScheduledDate(t) == t \div MinutesPerDay

IsoWeek(t) == (ScheduledDate(t) \div 7) + 1

MonthOf(t) == IF ScheduledDate(t) < 31 THEN 1 ELSE 2

TrailerFinal(r) ==
    [checkin    |-> <<r.checkin>>,
     checkout   |-> <<r.checkout>>,
     carrier    |-> r.carrier,
     visit      |-> r.visit,
     loaded     |-> r.loaded,
     ship       |-> r.ship,
     required   |-> required_time(r),
     compliance |-> compliance(r.checkin, required_time(r)),
     scheduled  |-> ScheduledDate(r.appt),
     week       |-> IsoWeek(r.appt),
     month      |-> MonthOf(r.appt)]

\* line 132 uses .str on the four timestamp columns as read_csv typed them;
\* line 149 assigns DataFrame.apply(axis=1) of an empty frame (a DataFrame,
\* not a Series) to one column, which raises ValueError
TrailerRaises(rows) ==
    \/ StrAccessorFails(rows, "checkin")
    \/ StrAccessorFails(rows, "appt")
    \/ StrAccessorFails(rows, "checkout")
    \/ StrAccessorFails(rows, "loaded")
    \/ SelectSeq(rows, TrailerEligible) = <<>>

clean_trailer_activity(rows) ==
    IF TrailerRaises(rows) THEN [raised |-> TRUE, rows |-> <<>>]
    ELSE LET kept   == SelectSeq(rows, TrailerEligible)
             parsed == [i \in 1..Len(kept) |-> TrailerParsed(kept[i])]
             dedup  == TrailerDedup(TrailerSort(parsed), {})
         IN  [raised |-> FALSE,
              rows   |-> [i \in 1..Len(dedup) |-> TrailerFinal(dedup[i])]]

----------------------------------------------------------------------------
(* clean_open_dock *)

RECURSIVE AfterTag(_)
\* the text after the first '>' of s, or NaN when s holds no '>'
AfterTag(s) ==
    IF s = <<>> THEN NaN
    ELSE IF Head(s) = ">" THEN <<Tail(s)>>
    ELSE AfterTag(Tail(s))

RECURSIVE RemoveTags(_)
\* str.replace(r'<[^>]*>', '', regex=True)
RemoveTags(s) ==
    IF s = <<>> THEN <<>>
    ELSE IF Head(s) = "<" /\ AfterTag(Tail(s)) # NaN THEN RemoveTags(AfterTag(Tail(s))[1])
    ELSE <<Head(s)>> \o RemoveTags(Tail(s))

\* str.replace(r'\n', ',', regex=True)
NewlinesToCommas(s) == [i \in 1..Len(s) |-> IF s[i] = "\n" THEN "," ELSE s[i]]

RECURSIVE SpaceRunsToCommas(_)
\* str.replace(r'\s+', ',', regex=True)
SpaceRunsToCommas(s) ==
    IF s = <<>> THEN <<>>
    ELSE IF IsSpace(Head(s)) THEN <<",">> \o SpaceRunsToCommas(lstrip(s))
    ELSE <<Head(s)>> \o SpaceRunsToCommas(Tail(s))

\* str.replace(r'[^0-9,]', '', regex=True)
KeepDigitsAndCommas(s) == SelectSeq(s, LAMBDA ch : IsDigit(ch) \/ ch = ",")

RECURSIVE CollapseCommaPairs(_)
\* str.replace(r',,', ',', regex=True): one left-to-right pass over non-overlapping pairs
CollapseCommaPairs(s) ==
    IF Len(s) < 2 THEN s
    ELSE IF s[1] = "," /\ s[2] = "," THEN <<",">> \o CollapseCommaPairs(SubSeq(s, 3, Len(s)))
    ELSE <<Head(s)>> \o CollapseCommaPairs(Tail(s))

RECURSIVE rstripCommas(_)
rstripCommas(s) ==
    IF s # <<>> /\ s[Len(s)] = "," THEN rstripCommas(SubSeq(s, 1, Len(s) - 1)) ELSE s

RECURSIVE lstripCommas(_)
lstripCommas(s) ==
    IF s # <<>> /\ Head(s) = "," THEN lstripCommas(Tail(s)) ELSE s

\* lines 5-12: the normalisation of one 'Sales Order(s)' cell
CleanSalesOrder(c) ==
    lstripCommas(rstripCommas(CollapseCommaPairs(KeepDigitsAndCommas(
        SpaceRunsToCommas(NewlinesToCommas(RemoveTags(strip(astype_str(c)))))))))

\* round(n / d, 0) for d > 0; n / d is never halfway for the divisors used
RoundDiv(n, d) == (2 * n + d) \div (2 * d)

\* lines 58-59: fillna(0), then round(minutes / 60, 2), in hundredths of an hour
DockDwellHours(c) == RoundDiv((IF c = NaN THEN 0 ELSE c[1]) * 100, 60)

DockStatusDropped == {<<"Arrived,">>, <<"Cancelled">>, <<"InProgress">>, <<"Scheduled">>}

DockKept(file, r) ==
    /\ ("Direction" \in file.cols => r.direction # <<"Inbound">>)
    /\ CleanSalesOrder(r.so) # <<>>
    /\ ("Status" \in file.cols => r.status \notin DockStatusDropped)

\* line 62: astype(str).str.strip() of the cleaned text changes nothing
DockRenamed(r) ==
    [dwell  |-> DockDwellHours(r.dwell),
     so     |-> strip(CleanSalesOrder(r.so)),
     status |-> r.status]

\* the columns of the cleaned dock table (lines 50-54)
DockColumns(file) ==
    {c \in {"Dwell Time", "SO Number", "Status"} :
        \/ c = "Dwell Time" /\ "Dwell Time (mins)" \in file.cols
        \/ c = "SO Number"
        \/ c = "Status" /\ "Status" \in file.cols}

\* line 5 raises KeyError when the file has no 'Sales Order(s)' column
DockRaises(file) == "Sales Order(s)" \notin file.cols

clean_open_dock(file) ==
    IF DockRaises(file) THEN [raised |-> TRUE, cols |-> {}, rows |-> <<>>]
    ELSE LET kept == SelectSeq(file.rows, LAMBDA r : DockKept(file, r))
         IN  [raised |-> FALSE,
              cols   |-> DockColumns(file),
              rows   |-> [i \in 1..Len(kept) |-> DockRenamed(kept[i])]]

----------------------------------------------------------------------------
(* app.py: the upload step *)

\* an uploader widget that holds no file (None)
NoFile == [present |-> FALSE, cols |-> {}, rows |-> <<>>]

\* mutant: lines 37-38 are left out
dwell_time_KeepsNonPositive(row) ==
    IF notna(row.loaded)
    THEN IF row.compliance = <<"On Time">>
         THEN <<RoundDiv((row.loaded[1] - row.appt[1]) * 100, 60)>>
         ELSE IF row.compliance = <<"Late">>
         THEN <<RoundDiv((row.loaded[1] - row.checkin[1]) * 100, 60)>>
         ELSE NaN
    ELSE NaN

dwell_time(row) ==
    LET raw == IF notna(row.loaded)
               THEN IF row.compliance = <<"On Time">>
                    THEN <<RoundDiv((row.loaded[1] - row.appt[1]) * 100, 60)>>
                    ELSE IF row.compliance = <<"Late">>
                    THEN <<RoundDiv((row.loaded[1] - row.checkin[1]) * 100, 60)>>
                    ELSE NaN
               ELSE NaN
    IN  IF raw # NaN /\ raw[1] <= 0 THEN NaN ELSE raw

\* mutant: min(axis=1, skipna=False), a blank cell makes the minimum blank
MinSkipNa_PropagatesNaN(a, b) ==
    IF a = NaN \/ b = NaN THEN NaN
    ELSE IF a[1] <= b[1] THEN a ELSE b

\* DataFrame.min(axis=1) over two cells: blank cells are skipped
MinSkipNa(a, b) ==
    IF a = NaN THEN b
    ELSE IF b = NaN THEN a
    ELSE IF a[1] <= b[1] THEN a ELSE b

RECURSIVE Flatten(_)
Flatten(ss) == IF ss = <<>> THEN <<>> ELSE Head(ss) \o Flatten(Tail(ss))

\* lines 82-100: open_dock LEFT JOIN open_order ON equal SO Number
FirstMergeRow(d, o) ==
    [so |-> d.so, dwell |-> <<d.dwell>>, status |-> d.status,
     appt |-> IF o = NaN THEN NaN ELSE <<o[1].appt>>,
     ship |-> IF o = NaN THEN NaN ELSE <<o[1].ship>>]

FirstMerge(dock, order) ==
    Flatten([i \in 1..Len(dock) |->
        LET hits == SelectSeq(order, LAMBDA o : o.so = dock[i].so)
        IN  IF hits = <<>> THEN <<FirstMergeRow(dock[i], NaN)>>
            ELSE [j \in 1..Len(hits) |-> FirstMergeRow(dock[i], <<hits[j]>>)]])

\* lines 103-127: merged_df LEFT JOIN trailer_report ON equal Shipment ID
SecondMergeRow(m, t) ==
    IF t = NaN
    THEN [ship |-> NaN, so |-> m.so, appt |-> m.appt, required |-> NaN,
          checkin |-> NaN, checkout |-> NaN, carrier |-> NaN, visit |-> NaN,
          loaded |-> NaN, compliance |-> NaN, dwell |-> m.dwell,
          status |-> m.status, scheduled |-> NaN, week |-> NaN, month |-> NaN]
    ELSE [ship |-> <<t[1].ship>>, so |-> m.so, appt |-> m.appt,
          required |-> <<t[1].required>>, checkin |-> t[1].checkin,
          checkout |-> t[1].checkout, carrier |-> t[1].carrier,
          visit |-> <<t[1].visit>>, loaded |-> t[1].loaded,
          compliance |-> <<t[1].compliance>>, dwell |-> m.dwell,
          status |-> m.status, scheduled |-> <<t[1].scheduled>>,
          week |-> <<t[1].week>>, month |-> <<t[1].month>>]

SecondMerge(merged, trailer) ==
    Flatten([i \in 1..Len(merged) |->
        LET key  == strip(astype_str(merged[i].ship))
            hits == SelectSeq(trailer, LAMBDA t : strip(t.ship) = key)
        IN  IF hits = <<>> THEN <<SecondMergeRow(merged[i], NaN)>>
            ELSE [j \in 1..Len(hits) |-> SecondMergeRow(merged[i], <<hits[j]>>)]])

\* mutant: line 141 leaves 'Dwell Time' out of the columns it blanks
NoShowOverride_KeepsDwell(r) ==
    IF r.status = <<"NoShow">>
    THEN [r EXCEPT !.compliance = <<"No Show">>, !.checkin = NaN,
                   !.checkout = NaN, !.loaded = NaN]
    ELSE r

\* mutant: lines 140-141 are left out
NoShowOverride_Skipped(r) == r

\* lines 139-141
NoShowOverride(r) ==
    IF r.status = <<"NoShow">>
    THEN [r EXCEPT !.compliance = <<"No Show">>, !.checkin = NaN,
                   !.checkout = NaN, !.loaded = NaN, !.dwell = NaN]
    ELSE r

carriers_to_exclude ==
    {"AACT", "DIMS", "EXLA", "SAIA", "FXFE", "FXLA", "FXNL", "F106", "F107", "F109",
     "F110", "F111", "F112", "F117", "ODFL", "U743", "U746", "U748", "VQXX", "CTII"}

\* mutant: one carrier code is missing from the list
CarrierKept_WithoutSAIA(r) ==
    ~(r.carrier # NaN /\ r.carrier[1] \in (carriers_to_exclude \ {"SAIA"}))

\* line 151
CarrierKept(r) == ~(r.carrier # NaN /\ r.carrier[1] \in carriers_to_exclude)

\* mutant: the dropna of line 155 is left out
HasShipmentId_Always(r) == TRUE

\* lines 154-155
HasShipmentId(r) == r.ship # NaN /\ r.ship[1] # <<>>

\* lines 144 and 157-164: drop Event Status, combine the two dwell times
FactRow(r) ==
    [ship |-> r.ship, so |-> r.so, appt |-> r.appt, required |-> r.required,
     checkin |-> r.checkin, checkout |-> r.checkout, carrier |-> r.carrier,
     visit |-> r.visit, loaded |-> r.loaded, compliance |-> r.compliance,
     dwell |-> MinSkipNa(r.dwell, dwell_time(r)),
     scheduled |-> r.scheduled, week |-> r.week, month |-> r.month]

FactColumns ==
    <<"Shipment ID", "SO Number", "Appointment DateTime", "Required Time",
      "Checkin DateTime", "Checkout DateTime", "Carrier", "Visit Type",
      "Loaded DateTime", "Compliance", "Dwell Time", "Scheduled Date", "Week", "Month">>

\* the rows left by lines 137-155, before the dwell computation
Filtered(joined) ==
    SelectSeq([i \in 1..Len(joined) |-> NoShowOverride(joined[i])],
              LAMBDA r : CarrierKept(r) /\ HasShipmentId(r))

\* lines 61-170, the body of the try block, on three uploaded files.  strict
\* tells whether the DuckDB build rejects the join on a table made from an empty
\* DataFrame (its object columns carry no type): both kinds of build exist.
\*   raised: an exception reached line 169;  stored: line 167 was executed;
\*   calls: the cleaners called;  joined: the result of the second merge;
\*   rows: dwell_and_ontime_compliance at the end of the block
PipelineFailed(n, cd, co, ct) ==
    [raised |-> TRUE, stored |-> FALSE, calls |-> n, joined |-> <<>>,
     rows |-> <<>>, dock |-> cd, order |-> co, trailer |-> ct]

\* lines 129-167 on the result of the second merge and its filtered rows
PipelineStore(cd, co, ct, joined, kept) ==
    IF joined = <<>>
    THEN [raised |-> FALSE, stored |-> FALSE, calls |-> 3, joined |-> joined,
          rows |-> joined, dock |-> cd, order |-> co, trailer |-> ct]
    ELSE IF kept = <<>>
    \* line 158: DataFrame.apply(axis=1) of an empty frame is a DataFrame;
    \* assigning it to one column raises ValueError
    THEN PipelineFailed(3, cd, co, ct)
    ELSE [raised |-> FALSE, stored |-> TRUE, calls |-> 3, joined |-> joined,
          rows |-> [i \in 1..Len(kept) |-> FactRow(kept[i])],
          dock |-> cd, order |-> co, trailer |-> ct]

PipelineJoin(cd, co, ct, joined) == PipelineStore(cd, co, ct, joined, Filtered(joined))

\* lines 69-127 on the results of the three cleaners
PipelineOn(cd, co, ct, strict) ==
    IF cd.raised THEN PipelineFailed(1, cd, [raised |-> FALSE, rows |-> <<>>],
                                     [raised |-> FALSE, rows |-> <<>>])
    ELSE IF co.raised THEN PipelineFailed(2, cd, co, [raised |-> FALSE, rows |-> <<>>])
    ELSE IF ct.raised THEN PipelineFailed(3, cd, co, ct)
    \* the first merge selects open_dock."Dwell Time" and open_dock."Status"
    ELSE IF ~({"Dwell Time", "Status"} \subseteq cd.cols) THEN PipelineFailed(3, cd, co, ct)
    ELSE IF strict /\ (cd.rows = <<>> \/ co.rows = <<>>) THEN PipelineFailed(3, cd, co, ct)
    ELSE PipelineJoin(cd, co, ct, SecondMerge(FirstMerge(cd.rows, co.rows), ct.rows))

Pipeline(dock, order, trailer, strict) ==
    PipelineOn(clean_open_dock(dock), clean_open_order(order.rows),
               clean_trailer_activity(trailer.rows), strict)

\* lines 43-44
EmptyFrame == [columns |-> <<>>, rows |-> <<>>]

InColumns(c, frame) == \E i \in 1..Len(frame.columns) : frame.columns[i] = c

\* lines 919-1001: the YTD tab works on the session table itself and adds a
\* column; line 954 reads monthly_avg['On Time'], a KeyError that ends the script
\* run before line 997 when no row is On Time
RenderTabs(frame) ==
    IF frame.rows # <<>> /\ InColumns("Dwell Time", frame)
          /\ (\E i \in 1..Len(frame.rows) : frame.rows[i].compliance = <<"On Time">>)
          /\ ~InColumns("Dwell Time Category", frame)
    THEN [frame EXCEPT !.columns = Append(@, "Dwell Time Category")]
    ELSE frame

\* mutant: the session table is reset before the try block
AfterUpload_ClearsOnError(old, p) ==
    IF p.stored THEN [columns |-> FactColumns, rows |-> p.rows]
    ELSE IF p.raised THEN EmptyFrame ELSE old

\* mutant: the new rows are appended to the table held
AfterUpload_Appends(old, p) ==
    IF p.stored THEN [columns |-> FactColumns, rows |-> old.rows \o p.rows] ELSE old

\* the session table after the upload step of one script run (lines 61-170)
AfterUpload(old, p) ==
    IF p.stored THEN [columns |-> FactColumns, rows |-> p.rows] ELSE old

\* lines 204-212: the table the Cleaned Data tab offers for download during a
\* run, given the table held before the run, the run's outcome and its rows
Offered(old, out, rows) ==
    IF out = "stored" THEN [columns |-> FactColumns, rows |-> rows] ELSE old

\* mutant: the guard tests the dock upload only
AllUploaded_DockOnly(d, o, t) == d.present

\* line 61
AllUploaded(d, o, t) == d.present /\ o.present /\ t.present

\* One run of the script (Streamlit runs it top to bottom at every interaction)
\* with the three uploader widgets holding d, o and t.
ScriptRun(d, o, t) ==
    /\ open_dock' = d
    /\ open_order' = o
    /\ trailer_activity' = t
    /\ prior' = session
    /\ IF AllUploaded(d, o, t)
       THEN \E strict \in BOOLEAN :
            \E p \in {Pipeline(d, o, t, strict)} :
                  /\ cleaned_open_dock' = p.dock
                  /\ cleaned_open_order' = p.order
                  /\ cleaned_trailer_activity' = p.trailer
                  /\ result' = p.rows
                  /\ calls' = p.calls
                  /\ warned' = p.raised
                  /\ outcome' = IF p.raised THEN "raised"
                                ELSE IF p.stored THEN "stored" ELSE "empty"
                  /\ session' = RenderTabs(AfterUpload(session, p))
       ELSE /\ cleaned_open_dock' = [raised |-> FALSE, cols |-> {}, rows |-> <<>>]
            /\ cleaned_open_order' = [raised |-> FALSE, rows |-> <<>>]
            /\ cleaned_trailer_activity' = [raised |-> FALSE, rows |-> <<>>]
            /\ result' = <<>>
            /\ calls' = 0
            /\ warned' = FALSE
            /\ outcome' = "skipped"
            /\ session' = RenderTabs(session)

----------------------------------------------------------------------------
(* Inputs *)

MaxRows == 2
MaxSessionRows == 1
MaxPipeRows == 1
MaxJoinRows == 2
MaxDedupRows == 3

SeqsUpTo(S, n) == UNION {[1..k -> S] : k \in 0..n}

DockFullCols == {"Sales Order(s)", "Direction", "Status", "Dwell Time (mins)"}

DockFile(cols, rows) == [present |-> TRUE, cols |-> cols, rows |-> rows]

TableFile(rows) == [present |-> TRUE, cols |-> {}, rows |-> rows]

Shipped == <<"S", "h", "i", "p", "p", "e", "d">>

\* rows for the cleaners taken alone
OrderRows ==
    [appt   : {<<Unparseable>>, <<600>>, <<660>>},
     so     : {NaN, <<<<"1">>>>, <<<<" ", "2">>>>},
     ship   : {<<<<"x">>>>, <<<<"5">>>>, <<<<"1", ",", "5">>>>},
     status : {NaN, <<<<" ", "S", "H", "I", "P", "P", "E", "D", " ">>>>,
               <<<<"O", "p", "e", "n">>>>}]

TrailerRows ==
    [checkin  : {<<615>>, <<2041>>},
     appt     : {<<600>>},
     checkout : {<<900>>},
     carrier  : {<<"ABCD">>},
     visit    : {<<"Live Load">>, <<"Pickup Load">>, <<"Drop">>},
     activity : {<<"CLOSED">>, <<"OPEN">>},
     loaded   : {NaN, <<700>>, <<800>>},
     ship     : {<<<<"5">>>>, <<<<"A", "6">>>>}]

\* rows for one pipeline run, rich in values: SpecPipeline
PipeDockRows ==
    [so        : {<<<<"1">>>>, <<<<"2">>>>},
     direction : {<<"Outbound">>},
     status    : {<<"Completed">>, <<"NoShow">>},
     dwell     : {NaN, <<90>>}]

PipeOrderRows ==
    [appt   : {<<600>>, <<660>>},
     so     : {<<<<"1">>>>},
     ship   : {<<<<"5">>>>},
     status : {<<Shipped>>}]

PipeTrailerRows ==
    [checkin  : {<<605>>, <<630>>},
     appt     : {<<600>>},
     checkout : {<<900>>},
     carrier  : {<<"ABCD">>},
     visit    : {<<"Live Load">>},
     activity : {<<"CLOSED">>},
     loaded   : {NaN, <<600>>, <<660>>, <<720>>},
     ship     : {<<<<"5">>>>, <<<<"6">>>>}]

\* rows for one pipeline run, rich in keys: SpecJoin
JoinDockRows ==
    [so        : {<<<<"1">>>>, <<<<"2">>>>},
     direction : {<<"Outbound">>},
     status    : {<<"Completed">>},
     dwell     : {<<90>>}]

JoinOrderRows ==
    [appt   : {<<600>>},
     so     : {<<<<"1">>>>, <<<<"2">>>>},
     ship   : {<<<<"5">>>>, <<<<"6">>>>},
     status : {<<Shipped>>}]

JoinTrailerRows ==
    [checkin  : {<<605>>},
     appt     : {<<600>>},
     checkout : {<<900>>},
     carrier  : {<<"ABCD">>, <<"SAIA">>},
     visit    : {<<"Live Load">>},
     activity : {<<"CLOSED">>},
     loaded   : {<<720>>},
     ship     : {<<<<"5">>>>, <<<<"6">>>>}]

\* files for the session: few rows, and dock files of the three layouts
SessionDockRows ==
    [so        : {<<<<"1">>>>},
     direction : {<<"Outbound">>, <<"Inbound">>},
     status    : {<<"Completed">>},
     dwell     : {NaN, <<90>>}]

SessionOrderRows ==
    [appt   : {<<600>>},
     so     : {<<<<"1">>>>},
     ship   : {<<<<"5">>>>},
     status : {<<Shipped>>}]

SessionTrailerRows ==
    [checkin  : {<<605>>},
     appt     : {<<600>>},
     checkout : {<<900>>},
     carrier  : {<<"ABCD">>, <<"SAIA">>},
     visit    : {<<"Live Load">>},
     activity : {<<"CLOSED">>},
     loaded   : {<<720>>},
     ship     : {<<<<"5">>>>}]

SessionDockRow ==
    [so |-> <<<<"1">>>>, direction |-> <<"Outbound">>,
     status |-> <<"Completed">>, dwell |-> <<90>>]

SessionDockFiles ==
    {DockFile(DockFullCols, r) : r \in SeqsUpTo(SessionDockRows, MaxSessionRows)}
    \cup {DockFile(DockFullCols \ {"Status"}, <<SessionDockRow>>),
          DockFile((DockFullCols \ {"Sales Order(s)"}) \cup {"Reference Number"},
                   <<SessionDockRow>>)}

SessionOrderFiles == {TableFile(r) : r \in SeqsUpTo(SessionOrderRows, MaxSessionRows)}

SessionTrailerFiles == {TableFile(r) : r \in SeqsUpTo(SessionTrailerRows, MaxSessionRows)}

----------------------------------------------------------------------------
(* The dashboard session: Spec *)

NotCleanedDock == [raised |-> FALSE, cols |-> {}, rows |-> <<>>]

NotCleaned == [raised |-> FALSE, rows |-> <<>>]

\* the state after the first script run of a new session: nothing uploaded
Init ==
    /\ open_dock = NoFile
    /\ open_order = NoFile
    /\ trailer_activity = NoFile
    /\ cleaned_open_dock = NotCleanedDock
    /\ cleaned_open_order = NotCleaned
    /\ cleaned_trailer_activity = NotCleaned
    /\ session = EmptyFrame
    /\ prior = EmptyFrame
    /\ result = <<>>
    /\ outcome = "skipped"
    /\ calls = 0
    /\ warned = FALSE

UploadDock == \E f \in SessionDockFiles : ScriptRun(f, open_order, trailer_activity)

UploadOrder == \E f \in SessionOrderFiles : ScriptRun(open_dock, f, trailer_activity)

UploadTrailer == \E f \in SessionTrailerFiles : ScriptRun(open_dock, open_order, f)

RemoveDock == open_dock.present /\ ScriptRun(NoFile, open_order, trailer_activity)

RemoveOrder == open_order.present /\ ScriptRun(open_dock, NoFile, trailer_activity)

RemoveTrailer == trailer_activity.present /\ ScriptRun(open_dock, open_order, NoFile)

\* any other widget (date, week, month selectors) reruns the script
Rerun == ScriptRun(open_dock, open_order, trailer_activity)

Next ==
    \/ UploadDock
    \/ UploadOrder
    \/ UploadTrailer
    \/ RemoveDock
    \/ RemoveOrder
    \/ RemoveTrailer
    \/ Rerun

Spec == Init /\ [][Next]_vars

----------------------------------------------------------------------------
(* One pipeline run on arbitrary files: SpecPipeline, SpecJoin *)

InitRun(docks, orders, trailers) ==
    /\ open_dock \in docks
    /\ open_order \in orders
    /\ trailer_activity \in trailers
    /\ cleaned_open_dock = NotCleanedDock
    /\ cleaned_open_order = NotCleaned
    /\ cleaned_trailer_activity = NotCleaned
    /\ session = EmptyFrame
    /\ prior = EmptyFrame
    /\ result = <<>>
    /\ outcome = "none"
    /\ calls = 0
    /\ warned = FALSE

InitPipeline ==
    InitRun({DockFile(DockFullCols, r) : r \in SeqsUpTo(PipeDockRows, MaxPipeRows)},
            {TableFile(r) : r \in SeqsUpTo(PipeOrderRows, MaxPipeRows)},
            {TableFile(r) : r \in SeqsUpTo(PipeTrailerRows, MaxPipeRows)})

RunPipeline == ScriptRun(open_dock, open_order, trailer_activity)

SpecPipeline == InitPipeline /\ [][RunPipeline]_vars

InitJoin ==
    InitRun({DockFile(DockFullCols, r) : r \in SeqsUpTo(JoinDockRows, MaxJoinRows)},
            {TableFile(r) : r \in SeqsUpTo(JoinOrderRows, MaxJoinRows)},
            {TableFile(r) : r \in SeqsUpTo(JoinTrailerRows, MaxJoinRows)})

SpecJoin == InitJoin /\ [][RunPipeline]_vars

----------------------------------------------------------------------------
(* The cleaners taken alone: SpecOrder, SpecTrailer *)

InitCleaner(d, o, t) ==
    /\ open_dock = d
    /\ open_order = o
    /\ trailer_activity = t
    /\ cleaned_open_dock = NotCleanedDock
    /\ cleaned_open_order = NotCleaned
    /\ cleaned_trailer_activity = NotCleaned
    /\ session = EmptyFrame
    /\ prior = EmptyFrame
    /\ result = <<>>
    /\ outcome = "none"
    /\ calls = 0
    /\ warned = FALSE

InitOrder ==
    \E f \in {TableFile(r) : r \in SeqsUpTo(OrderRows, MaxRows)} :
        InitCleaner(NoFile, f, NoFile)

CallCleanOrder ==
    /\ outcome = "none"
    /\ cleaned_open_order' = clean_open_order(open_order.rows)
    /\ outcome' = "cleaned"
    /\ calls' = 1
    /\ UNCHANGED <<open_dock, open_order, trailer_activity, cleaned_open_dock,
                   cleaned_trailer_activity, session, prior, result, warned>>

SpecOrder == InitOrder /\ [][CallCleanOrder]_vars

\* shipped rows with parseable appointments, for the two deduplication passes
DedupOrderRows ==
    [appt   : {<<600>>, <<660>>},
     so     : {<<<<"1">>>>, <<<<"2">>>>},
     ship   : {<<<<"5">>>>, <<<<"6">>>>},
     status : {<<Shipped>>}]

InitOrderDedup ==
    \E f \in {TableFile(r) : r \in SeqsUpTo(DedupOrderRows, MaxDedupRows)} :
        InitCleaner(NoFile, f, NoFile)

SpecOrderDedup == InitOrderDedup /\ [][CallCleanOrder]_vars

InitTrailer ==
    \E f \in {TableFile(r) : r \in SeqsUpTo(TrailerRows, MaxRows)} :
        InitCleaner(NoFile, NoFile, f)

CallCleanTrailer ==
    /\ outcome = "none"
    /\ cleaned_trailer_activity' = clean_trailer_activity(trailer_activity.rows)
    /\ outcome' = "cleaned"
    /\ calls' = 1
    /\ UNCHANGED <<open_dock, open_order, trailer_activity, cleaned_open_dock,
                   cleaned_open_order, session, prior, result, warned>>

SpecTrailer == InitTrailer /\ [][CallCleanTrailer]_vars

CallCleanDock ==
    /\ outcome = "none"
    /\ cleaned_open_dock' = clean_open_dock(open_dock)
    /\ outcome' = "cleaned"
    /\ calls' = 1
    /\ UNCHANGED <<open_dock, open_order, trailer_activity, cleaned_open_order,
                   cleaned_trailer_activity, session, prior, result, warned>>

\* rows for the dock cleaner taken alone
DockRows ==
    [so        : {NaN, <<<<"1", "2">>>>, <<<<"<", "b", ">", "3", "<", "/", "b", ">">>>>,
                  <<<<"1", " ", "a", " ", "b", " ", "2">>>>},
     direction : {<<"Outbound">>, <<"Inbound">>},
     status    : {<<"Completed">>, <<"Arrived">>, <<"Cancelled">>},
     dwell     : {NaN, <<90>>}]

InitDock ==
    \E f \in {DockFile(c, r) : c \in {DockFullCols, DockFullCols \ {"Status"}},
                                r \in SeqsUpTo(DockRows, MaxRows)} :
        InitCleaner(f, NoFile, NoFile)

SpecDock == InitDock /\ [][CallCleanDock]_vars

----------------------------------------------------------------------------
(* dwell_time taken alone: SpecDwell *)

\* joined rows as line 158 sees them, the computed dwell not yet set
DwellRows ==
    [loaded     : {NaN, <<600>>, <<615>>, <<660>>, <<720>>},
     appt       : {<<600>>, <<660>>},
     checkin    : {<<605>>, <<700>>},
     compliance : {NaN, <<"On Time">>, <<"Late">>, <<"No Show">>},
     dwell      : {NaN}]

InitDwell ==
    /\ open_dock = NoFile
    /\ open_order = NoFile
    /\ trailer_activity = NoFile
    /\ cleaned_open_dock = NotCleanedDock
    /\ cleaned_open_order = NotCleaned
    /\ cleaned_trailer_activity = NotCleaned
    /\ session = EmptyFrame
    /\ prior = EmptyFrame
    /\ result \in {<<r>> : r \in DwellRows}
    /\ outcome = "none"
    /\ calls = 0
    /\ warned = FALSE

\* line 158: the 'Calculated Dwell Time' of each row
CallDwellTime ==
    /\ outcome = "none"
    /\ result' = [i \in 1..Len(result) |->
                     [result[i] EXCEPT !.dwell = dwell_time(result[i])]]
    /\ outcome' = "computed"
    /\ calls' = 1
    /\ UNCHANGED <<open_dock, open_order, trailer_activity, cleaned_open_dock,
                   cleaned_open_order, cleaned_trailer_activity, session, prior,
                   warned>>

SpecDwell == InitDwell /\ [][CallDwellTime]_vars

----------------------------------------------------------------------------
(* One pipeline run on the end-to-end example and its neighbours: SpecExample *)

ExampleSO == <<"1", "0", "0", "1">>

ExampleShipment == <<"5", "0", "0">>

ExampleDockCols == {"Reference Number", "Dwell Time (mins)"}

ExampleDockRow ==
    [so |-> <<ExampleSO>>, direction |-> NaN, status |-> NaN, dwell |-> <<120>>]

ExampleOrderRow ==
    [appt |-> <<600>>, so |-> <<ExampleSO>>, ship |-> <<ExampleShipment>>,
     status |-> <<Shipped>>]

ExampleTrailerRow ==
    [checkin |-> <<605>>, appt |-> <<600>>, checkout |-> <<780>>,
     carrier |-> <<"ABCD">>, visit |-> <<"Live Load">>, activity |-> <<"CLOSED">>,
     loaded |-> <<780>>, ship |-> <<ExampleShipment>>]

\* the example dock file under the three header layouts, with other dwell values
ExampleDockFiles ==
    {DockFile(ExampleDockCols, <<[ExampleDockRow EXCEPT !.dwell = d]>>) :
        d \in {NaN, <<120>>, <<240>>}}
    \cup {DockFile({"Sales Order(s)", "Dwell Time (mins)"},
                   <<[ExampleDockRow EXCEPT !.dwell = d]>>) :
        d \in {NaN, <<120>>, <<240>>}}
    \cup {DockFile({"Sales Order(s)", "Dwell Time (mins)", "Status"},
                   <<[ExampleDockRow EXCEPT !.dwell = d, !.status = <<"Completed">>]>>) :
        d \in {NaN, <<120>>, <<240>>}}

ExampleOrderFiles ==
    {TableFile(<<[ExampleOrderRow EXCEPT !.appt = a, !.ship = <<sh>>]>>) :
        a \in {<<600>>, <<660>>}, sh \in {ExampleShipment, <<"5", "0", "1">>}}

ExampleTrailerFiles ==
    {TableFile(<<[ExampleTrailerRow EXCEPT !.checkin = c, !.visit = v, !.loaded = l]>>) :
        c \in {<<605>>, <<620>>}, v \in {<<"Live Load">>, <<"Pickup Load">>},
        l \in {NaN, <<780>>}}

InitExample == InitRun(ExampleDockFiles, ExampleOrderFiles, ExampleTrailerFiles)

SpecExample == InitExample /\ [][RunPipeline]_vars

----------------------------------------------------------------------------
(* Claims *)

Unique(rows, key) ==
    \A i, j \in 1..Len(rows) : i # j => rows[i][key] # rows[j][key]

\* C1: the output of clean_open_order has no two rows with the same Shipment ID
\* and no two rows with the same SO Number.
C1_OrderKeysUnique ==
    /\ Unique(cleaned_open_order.rows, "ship")
    /\ Unique(cleaned_open_order.rows, "so")

\* two eligible input rows with one SO Number and two Shipment IDs: one is kept
C1_Witness ==
    /\ outcome = "cleaned"
    /\ Len(open_order.rows) = 2
    /\ OrderEligible(open_order.rows[1]) /\ OrderEligible(open_order.rows[2])
    /\ OrderRenamed(open_order.rows[1]).so = OrderRenamed(open_order.rows[2]).so
    /\ OrderRenamed(open_order.rows[1]).ship # OrderRenamed(open_order.rows[2]).ship
    /\ Len(cleaned_open_order.rows) = 1

\* C2: every row output by clean_trailer_activity derives from an input row with
\* ACTIVITY TYPE CLOSED and VISIT TYPE Pickup Load or Live Load, and no two output
\* rows share a Shipment ID.
C2_TrailerRowsClosedAndUnique ==
    /\ \A i \in 1..Len(cleaned_trailer_activity.rows) :
          \E k \in 1..Len(trailer_activity.rows) :
             LET out == cleaned_trailer_activity.rows[i]
                 in  == trailer_activity.rows[k]
             IN  /\ in.activity = <<"CLOSED">>
                 /\ in.visit \in {<<"Pickup Load">>, <<"Live Load">>}
                 /\ in.visit = <<out.visit>>
                 /\ CleanShipmentId(in.ship) = out.ship
                 /\ to_datetime(in.checkin) = out.checkin
                 /\ to_datetime(in.loaded) = out.loaded
    /\ Unique(cleaned_trailer_activity.rows, "ship")

\* an OPEN row and a CLOSED row of one shipment: only the CLOSED one is output
C2_Witness ==
    /\ outcome = "cleaned"
    /\ Len(trailer_activity.rows) = 2
    /\ trailer_activity.rows[1].activity = <<"OPEN">>
    /\ trailer_activity.rows[1].visit = <<"Live Load">>
    /\ trailer_activity.rows[1].loaded = <<800>>
    /\ trailer_activity.rows[2].loaded = <<700>>
    /\ trailer_activity.rows[1].ship = trailer_activity.rows[2].ship
    /\ TrailerEligible(trailer_activity.rows[2])
    /\ Len(cleaned_trailer_activity.rows) = 1

\* C3: in every fact table stored in session state each row's Dwell Time is null
\* or strictly greater than 0.
C3_DwellNullOrPositive ==
    \A i \in 1..Len(session.rows) :
        session.rows[i].dwell = NaN \/ session.rows[i].dwell[1] > 0

\* C4: in every fact table stored in session state each row whose Compliance is
\* 'No Show' has null Checkin, Checkout and Loaded DateTime and null Dwell Time.
C4_NoShowRowsBlank ==
    \A i \in 1..Len(session.rows) :
        session.rows[i].compliance = <<"No Show">> =>
            /\ session.rows[i].checkin = NaN
            /\ session.rows[i].checkout = NaN
            /\ session.rows[i].loaded = NaN
            /\ session.rows[i].dwell = NaN

\* a NoShow dock event with a dock dwell, joined to a loaded trailer visit, is stored
C4_Witness ==
    /\ outcome = "stored"
    /\ Len(session.rows) = 1
    /\ session.rows[1].compliance = <<"No Show">>
    /\ open_dock.rows[1].dwell = <<90>>
    /\ trailer_activity.rows[1].loaded = <<720>>

\* C5: no row of the final fact table has a Carrier in the fixed exclusion list.
C5_NoExcludedCarrier ==
    \A i \in 1..Len(session.rows) :
        session.rows[i].carrier = NaN
        \/ session.rows[i].carrier[1] \notin carriers_to_exclude

\* a dock row joined to a shipment of carrier SAIA, and a table stored without it
C5_Witness ==
    /\ outcome = "stored"
    /\ \E d \in 1..Len(cleaned_open_dock.rows),
          o \in 1..Len(cleaned_open_order.rows),
          t \in 1..Len(cleaned_trailer_activity.rows) :
          /\ cleaned_open_dock.rows[d].so = cleaned_open_order.rows[o].so
          /\ cleaned_open_order.rows[o].ship = cleaned_trailer_activity.rows[t].ship
          /\ cleaned_trailer_activity.rows[t].carrier = <<"SAIA">>

\* C6: when the pipeline raises, the session fact table after the run is the one
\* held before the run.
C6_FailedRunKeepsTable == outcome = "raised" => session = prior

\* a run raises while the session holds the rows of an earlier run
C6_Witness == outcome = "raised" /\ prior.rows # <<>>

\* C7: after a run that completes without exception and produces at least one row,
\* the session fact table consists of exactly the rows of that run.
C7_StoredRunReplaces ==
    (outcome \in {"stored", "empty"} /\ result # <<>>) => session.rows = result

\* a run stores its rows over the different rows of an earlier run
C7_Witness ==
    /\ outcome = "stored"
    /\ prior.rows # <<>>
    /\ prior.rows # result

\* C8: every run that completes without exception replaces the prior table, also
\* when the joined result has zero rows.
C8_CompletedRunReplaces ==
    outcome \in {"stored", "empty"} => session.rows = result

\* C9: when an upload is absent no cleaner is called, the upload step emits no
\* warning and the session fact table is unchanged.
C9_MissingUploadSkips ==
    (~open_dock.present \/ ~open_order.present \/ ~trailer_activity.present) =>
        /\ outcome = "skipped"
        /\ calls = 0
        /\ ~warned
        /\ session = prior

\* a run with the order file removed while the session holds an earlier result
C9_Witness ==
    /\ open_dock.present /\ ~open_order.present /\ trailer_activity.present
    /\ outcome = "skipped"
    /\ session.rows # <<>>

\* C10: in the final fact table no two rows share a Shipment ID.
C10_FactShipmentIdUnique == Unique(session.rows, "ship")

\* the rows of the second merge that reach line 158, recomputed from the three
\* cleaned tables of the last run
KeptRows ==
    Filtered(SecondMerge(FirstMerge(cleaned_open_dock.rows, cleaned_open_order.rows),
                         cleaned_trailer_activity.rows))

C12_DwellIsMinIgnoringNull ==
    outcome = "stored" =>
        /\ Len(session.rows) = Len(KeptRows)
        /\ \A i \in 1..Len(session.rows) :
              LET dock     == KeptRows[i].dwell
                  computed == dwell_time(KeptRows[i])
                  final    == session.rows[i].dwell
              IN  /\ (dock = NaN /\ computed = NaN) => final = NaN
                  /\ (dock = NaN /\ computed # NaN) => final = computed
                  /\ (dock # NaN /\ computed = NaN) => final = dock
                  /\ (dock # NaN /\ computed # NaN) =>
                        /\ final \in {dock, computed}
                        /\ final[1] <= dock[1]
                        /\ final[1] <= computed[1]

\* dock dwell 1.5 h and computed dwell 2.0 h (loaded 12:00, appointment 10:00, on
\* time) give 1.5 h; the same run domain holds rows with a blank computed dwell
C12_Witness ==
    /\ outcome = "stored"
    /\ Len(session.rows) = 1
    /\ KeptRows[1].dwell = <<150>>
    /\ dwell_time(KeptRows[1]) = <<200>>
    /\ session.rows[1].dwell = <<150>>


\* C13: a dock file without a Status column, uploaded with an order file and a
\* trailer file with which the same dock rows under a Status column are stored,
\* is processed without exception and its fact table is stored.
C13_DockWithoutStatusStored ==
    (/\ open_dock.present /\ open_order.present /\ trailer_activity.present
     /\ "Sales Order(s)" \in open_dock.cols
     /\ "Status" \notin open_dock.cols
     /\ Pipeline(DockFile(open_dock.cols \cup {"Status"}, open_dock.rows),
                 open_order, trailer_activity, FALSE).stored)
    => (outcome = "stored" /\ session.rows = result /\ result # <<>>)

\* C14: the end-to-end example (dock row under 'Reference Number') produces
\* exactly one fact row, with Required Time 10:15, Compliance On Time and Dwell
\* Time 2.0 hours.
C14_ExampleOneFactRow ==
    (/\ outcome # "none"
     /\ open_dock = DockFile(ExampleDockCols, <<ExampleDockRow>>)
     /\ open_order = TableFile(<<ExampleOrderRow>>)
     /\ trailer_activity = TableFile(<<ExampleTrailerRow>>))
    => /\ outcome = "stored"
       /\ Len(session.rows) = 1
       /\ session.rows[1].required = <<615>>
       /\ session.rows[1].compliance = <<"On Time">>
       /\ session.rows[1].dwell = <<200>>

\* C15: whenever the table offered for download during a run has rows, its
\* columns are exactly the fourteen columns of the fact table, in order.
C15_DownloadHeader ==
    Offered(prior, outcome, result).rows # <<>> =>
        Offered(prior, outcome, result).columns = FactColumns

\* C16: when the dock file has a Status column, no row output by clean_open_dock
\* has Status Arrived, Cancelled, InProgress or Scheduled.
C16_NoDroppedStatus ==
    (outcome = "cleaned" /\ "Status" \in open_dock.cols) =>
        \A i \in 1..Len(cleaned_open_dock.rows) :
            cleaned_open_dock.rows[i].status \notin
                {<<"Arrived">>, <<"Cancelled">>, <<"InProgress">>, <<"Scheduled">>}

\* the eligible rows of the order file, cleaned and renamed, in file order
EligibleOrders ==
    LET kept == SelectSeq(open_order.rows, OrderEligible)
    IN  [i \in 1..Len(kept) |-> OrderRenamed(kept[i])]

\* the eligible rows that are the first of their Shipment ID in the order of line
\* 99: none with that Shipment ID has a later appointment, or the same appointment
\* and an earlier place in the file
FirstOfShipment ==
    {k \in 1..Len(EligibleOrders) :
        \A j \in 1..Len(EligibleOrders) :
            (j # k /\ EligibleOrders[j].ship = EligibleOrders[k].ship) =>
                \/ EligibleOrders[j].appt < EligibleOrders[k].appt
                \/ EligibleOrders[j].appt = EligibleOrders[k].appt /\ j > k}

\* C17 as stated: for each SO Number in the output of clean_open_order the kept
\* row carries the most recent appointment of all eligible input rows with that
\* SO Number.
C17_LatestPerSO ==
    outcome = "cleaned" =>
        \A i \in 1..Len(cleaned_open_order.rows) :
            \A k \in 1..Len(EligibleOrders) :
                EligibleOrders[k].so = cleaned_open_order.rows[i].so =>
                    EligibleOrders[k].appt <= cleaned_open_order.rows[i].appt

\* C17 as amended: for each SO Number in the output of clean_open_order the kept
\* row is an eligible input row that is the first of its Shipment ID, and carries
\* the most recent appointment of the eligible rows with that SO Number that are
\* the first of their Shipment ID.
C17_LatestPerSOAmongFirstOfShipment ==
    outcome = "cleaned" =>
        \A i \in 1..Len(cleaned_open_order.rows) :
            /\ \E k \in FirstOfShipment : EligibleOrders[k] = cleaned_open_order.rows[i]
            /\ \A k \in FirstOfShipment :
                  EligibleOrders[k].so = cleaned_open_order.rows[i].so =>
                      EligibleOrders[k].appt <= cleaned_open_order.rows[i].appt

\* an SO Number whose latest row loses its Shipment ID to another SO Number is
\* output with the appointment of its earlier row
C17_Witness ==
    /\ outcome = "cleaned"
    /\ Len(EligibleOrders) = 3
    /\ \E i \in 1..Len(cleaned_open_order.rows), k \in 1..3 :
          /\ EligibleOrders[k].so = cleaned_open_order.rows[i].so
          /\ EligibleOrders[k].appt > cleaned_open_order.rows[i].appt
          /\ k \notin FirstOfShipment

\* C18: for each Shipment ID in the output of clean_open_order the kept row
\* carries the most recent appointment of all eligible input rows with that
\* Shipment ID.
C18_LatestPerShipment ==
    outcome = "cleaned" =>
        \A i \in 1..Len(cleaned_open_order.rows) :
            /\ \E k \in 1..Len(EligibleOrders) :
                  EligibleOrders[k] = cleaned_open_order.rows[i]
            /\ \A k \in 1..Len(EligibleOrders) :
                  EligibleOrders[k].ship = cleaned_open_order.rows[i].ship =>
                      EligibleOrders[k].appt <= cleaned_open_order.rows[i].appt

\* two eligible rows of one Shipment ID with different appointments, the earlier
\* one first in the file: the later one is output
C18_Witness ==
    /\ outcome = "cleaned"
    /\ Len(EligibleOrders) = 2
    /\ EligibleOrders[1].ship = EligibleOrders[2].ship
    /\ EligibleOrders[1].appt < EligibleOrders[2].appt
    /\ cleaned_open_order.rows = <<EligibleOrders[2]>>

\* C19: every row output by clean_open_order has a non-empty Shipment ID made of
\* digits only (a row whose Shipment Nbr holds no digit is excluded).
C19_ShipmentIdDigits ==
    outcome = "cleaned" =>
        \A i \in 1..Len(cleaned_open_order.rows) :
            /\ cleaned_open_order.rows[i].ship # <<>>
            /\ \A n \in 1..Len(cleaned_open_order.rows[i].ship) :
                  IsDigit(cleaned_open_order.rows[i].ship[n])

\* C20: in every fact row the Required Time is the row's Appointment DateTime
\* plus 15 minutes for a Live Load and plus 24 hours otherwise.
C20_RequiredFromOwnAppointment ==
    \A i \in 1..Len(session.rows) :
        (session.rows[i].appt # NaN /\ session.rows[i].required # NaN) =>
            session.rows[i].required[1] = session.rows[i].appt[1] +
                (IF session.rows[i].visit = <<"Live Load">> THEN 15 ELSE 24 * 60)

\* C21 as stated: every row of the final fact table has a non-null Shipment ID,
\* Scheduled Date and Loaded DateTime.
C21_KeysAndLoadNotNull ==
    \A i \in 1..Len(session.rows) :
        /\ session.rows[i].ship # NaN
        /\ session.rows[i].scheduled # NaN
        /\ session.rows[i].loaded # NaN

\* C21 as amended: every row of the final fact table has a non-null, non-empty
\* Shipment ID and a non-null Scheduled Date, and in the run that stored it its
\* Shipment ID is that of a cleaned trailer row (a stage-1 row without one never
\* appears).
C21_KeysNotNullAndMatched ==
    \A i \in 1..Len(session.rows) :
        /\ session.rows[i].ship # NaN
        /\ session.rows[i].ship[1] # <<>>
        /\ session.rows[i].scheduled # NaN
        /\ outcome = "stored" =>
              \E t \in 1..Len(cleaned_trailer_activity.rows) :
                  cleaned_trailer_activity.rows[t].ship = session.rows[i].ship[1]

\* a stored fact row with a Shipment ID and a Scheduled Date whose Loaded DateTime
\* is null although its trailer visit has a load time
C21_Witness ==
    /\ outcome = "stored"
    /\ Len(session.rows) = 1
    /\ cleaned_trailer_activity.rows[1].loaded # NaN
    /\ session.rows[1].ship = <<cleaned_trailer_activity.rows[1].ship>>
    /\ session.rows[1].scheduled # NaN
    /\ session.rows[1].loaded = NaN

\* C22: a fact row has Compliance 'No Show' exactly when the dock event it was
\* joined from has Status NoShow, whatever the matched trailer row carries, and
\* every other fact row has Compliance On Time or Late.
C22_NoShowIffDockNoShow ==
    outcome = "stored" =>
        /\ Len(session.rows) = Len(KeptRows)
        /\ \A i \in 1..Len(session.rows) :
              /\ session.rows[i].so = KeptRows[i].so
              /\ session.rows[i].compliance = <<"No Show">>
                    <=> KeptRows[i].status = <<"NoShow">>
              /\ session.rows[i].compliance \in
                    {<<"No Show">>, <<"On Time">>, <<"Late">>}

\* a NoShow dock event joined to a trailer visit that checked in on time
C22_Witness ==
    /\ outcome = "stored"
    /\ Len(session.rows) = 1
    /\ open_dock.rows[1].status = <<"NoShow">>
    /\ cleaned_trailer_activity.rows[1].compliance = "On Time"
    /\ session.rows[1].compliance = <<"No Show">>

\* C23: the SO Number of every row output by clean_open_dock holds only digits
\* and commas, has no leading or trailing comma and no two adjacent commas.
C23_NormalisedSalesOrder ==
    outcome = "cleaned" =>
        \A i \in 1..Len(cleaned_open_dock.rows) :
            LET so == cleaned_open_dock.rows[i].so
            IN  /\ \A n \in 1..Len(so) : IsDigit(so[n]) \/ so[n] = ","
                /\ so # <<>> => (so[1] # "," /\ so[Len(so)] # ",")
                /\ \A n \in 1..(Len(so) - 1) : ~(so[n] = "," /\ so[n + 1] = ",")

\* C24: for each Shipment ID in the output of clean_trailer_activity the kept row
\* is an eligible input row of that shipment with the latest load timestamp of
\* its eligible rows, and its load timestamp is null only when all of theirs are.
C24_LatestLoadPerShipment ==
    outcome = "cleaned" =>
        \A i \in 1..Len(cleaned_trailer_activity.rows) :
            LET out == cleaned_trailer_activity.rows[i]
            IN  /\ \E k \in 1..Len(trailer_activity.rows) :
                      /\ TrailerEligible(trailer_activity.rows[k])
                      /\ CleanShipmentId(trailer_activity.rows[k].ship) = out.ship
                      /\ to_datetime(trailer_activity.rows[k].loaded) = out.loaded
                /\ \A k \in 1..Len(trailer_activity.rows) :
                      (/\ TrailerEligible(trailer_activity.rows[k])
                       /\ CleanShipmentId(trailer_activity.rows[k].ship) = out.ship
                       /\ to_datetime(trailer_activity.rows[k].loaded) # NaN)
                      => /\ out.loaded # NaN
                         /\ trailer_activity.rows[k].loaded[1] <= out.loaded[1]

\* two eligible rows of one shipment, the first without a load timestamp: the
\* second is output
C24_Witness ==
    /\ outcome = "cleaned"
    /\ Len(trailer_activity.rows) = 2
    /\ TrailerEligible(trailer_activity.rows[1])
    /\ TrailerEligible(trailer_activity.rows[2])
    /\ trailer_activity.rows[1].ship = trailer_activity.rows[2].ship
    /\ trailer_activity.rows[1].loaded = NaN
    /\ trailer_activity.rows[2].loaded = <<700>>
    /\ Len(cleaned_trailer_activity.rows) = 1
    /\ cleaned_trailer_activity.rows[1].loaded = <<700>>

\* C25: every row output by clean_trailer_activity has Compliance 'On Time' when
\* its checkin is not after its appointment plus 15 minutes (Live Load) or plus 24
\* hours (Pickup Load), and 'Late' otherwise.
C25_ComplianceByGrace ==
    outcome = "cleaned" =>
        \A i \in 1..Len(cleaned_trailer_activity.rows) :
            LET out == cleaned_trailer_activity.rows[i]
            IN  /\ out.compliance \in {"On Time", "Late"}
                /\ \E k \in 1..Len(trailer_activity.rows) :
                      LET in    == trailer_activity.rows[k]
                          grace == IF in.visit = <<"Live Load">> THEN 15 ELSE 24 * 60
                      IN  /\ in.activity = <<"CLOSED">>
                          /\ in.visit = <<out.visit>>
                          /\ in.checkin = out.checkin
                          /\ CleanShipmentId(in.ship) = out.ship
                          /\ to_datetime(in.loaded) = out.loaded
                          /\ out.required = in.appt[1] + grace
                          /\ out.compliance = "On Time"
                                <=> in.checkin[1] <= in.appt[1] + grace

\* a Live Load that checks in exactly 15 minutes after its appointment is On Time
\* and a Pickup Load that checks in a minute after its 24 hours is Late
C25_Witness ==
    /\ outcome = "cleaned"
    /\ Len(cleaned_trailer_activity.rows) = 2
    /\ \E i, j \in 1..2 :
          /\ cleaned_trailer_activity.rows[i].visit = "Live Load"
          /\ cleaned_trailer_activity.rows[i].checkin = <<615>>
          /\ cleaned_trailer_activity.rows[i].compliance = "On Time"
          /\ cleaned_trailer_activity.rows[j].visit = "Pickup Load"
          /\ cleaned_trailer_activity.rows[j].checkin = <<2041>>
          /\ cleaned_trailer_activity.rows[j].compliance = "Late"

\* the minutes dwell_time measures for a row: from the appointment when on time,
\* from the checkin when late
C26_Minutes(r) ==
    IF r.compliance = <<"On Time">> THEN r.loaded[1] - r.appt[1]
    ELSE r.loaded[1] - r.checkin[1]

\* C26: the computed dwell is null when Loaded DateTime is null or Compliance is
\* neither On Time nor Late; otherwise it is the hours, to the nearest hundredth,
\* from the appointment (On Time) or the checkin (Late) to the load, and null
\* when that is zero or negative: it is always null or strictly positive.
C26_ComputedDwell ==
    outcome = "computed" =>
        \A i \in 1..Len(result) :
            LET r == result[i]
            IN  /\ (r.dwell = NaN \/ r.dwell[1] > 0)
                /\ IF r.loaded = NaN \/ r.compliance \notin {<<"On Time">>, <<"Late">>}
                   THEN r.dwell = NaN
                   ELSE IF C26_Minutes(r) <= 0
                   THEN r.dwell = NaN
                   ELSE /\ r.dwell # NaN
                        /\ 2 * (60 * r.dwell[1] - 100 * C26_Minutes(r)) <= 60
                        /\ 2 * (100 * C26_Minutes(r) - 60 * r.dwell[1]) <= 60

\* an On Time row loaded an hour before its appointment: the negative dwell is
\* replaced by null
C26_Witness ==
    /\ outcome = "computed"
    /\ result[1].compliance = <<"On Time">>
    /\ result[1].loaded = <<600>>
    /\ result[1].appt = <<660>>
    /\ result[1].dwell = NaN

\* C27: every row output by clean_open_order derives from an input row whose
\* appointment parsed and whose Order Status is present and, trimmed and in lower
\* case, is 'shipped'.
C27_OutputParsedAndShipped ==
    outcome = "cleaned" =>
        \A i \in 1..Len(cleaned_open_order.rows) :
            \E k \in 1..Len(open_order.rows) :
                LET in == open_order.rows[k]
                IN  /\ in.appt # NaN
                    /\ in.appt[1] # Unparseable
                    /\ in.appt[1] = cleaned_open_order.rows[i].appt
                    /\ in.status # NaN
                    /\ lower(strip(in.status[1])) = <<"s", "h", "i", "p", "p", "e", "d">>
                    /\ CleanShipmentId(in.ship) = cleaned_open_order.rows[i].ship
                    /\ strip(astype_str(in.so)) = cleaned_open_order.rows[i].so

\* an open order with the later appointment and a shipped order, both of one
\* shipment: the shipped one is output
C27_Witness ==
    /\ outcome = "cleaned"
    /\ Len(open_order.rows) = 2
    /\ open_order.rows[1].status = <<<<"O", "p", "e", "n">>>>
    /\ open_order.rows[1].appt = <<660>>
    /\ open_order.rows[2].appt = <<600>>
    /\ open_order.rows[1].ship = open_order.rows[2].ship
    /\ open_order.rows[1].so = open_order.rows[2].so
    /\ Len(cleaned_open_order.rows) = 1
    /\ cleaned_open_order.rows[1].appt = 600

\* C28: every row output by clean_open_order carries the SO number of an input
\* row in which it was present and not empty (a row with a missing or empty SO
\* number is dropped).
C28_SONumberFromInput ==
    outcome = "cleaned" =>
        \A i \in 1..Len(cleaned_open_order.rows) :
            \E k \in 1..Len(open_order.rows) :
                /\ open_order.rows[k].so # NaN
                /\ strip(open_order.rows[k].so[1]) # <<>>
                /\ strip(open_order.rows[k].so[1]) = cleaned_open_order.rows[i].so

\* C29: rendering the views of a script run leaves the session fact table as the
\* upload step of that run left it: same columns, rows and values.
C29_RenderingKeepsTable == session = Offered(prior, outcome, result)

\* the number of rows of a table with a given SO Number
C30_CountSO(rows, so) == Cardinality({i \in 1..Len(rows) : rows[i].so = so})

\* C30: the fact table has no more rows than the cleaned dock table, no more
\* rows of an SO Number than the cleaned dock table has, and every fact row's SO
\* Number is that of a cleaned dock row, matched by a cleaned order row whose
\* Shipment ID is the fact row's and that of a cleaned trailer row.
C30_OneFactRowPerDockRow ==
    outcome = "stored" =>
        /\ Len(session.rows) <= Len(cleaned_open_dock.rows)
        /\ \A i \in 1..Len(session.rows) :
              /\ C30_CountSO(session.rows, session.rows[i].so)
                    <= C30_CountSO(cleaned_open_dock.rows, session.rows[i].so)
              /\ \E d \in 1..Len(cleaned_open_dock.rows),
                    o \in 1..Len(cleaned_open_order.rows),
                    t \in 1..Len(cleaned_trailer_activity.rows) :
                    /\ cleaned_open_dock.rows[d].so = session.rows[i].so
                    /\ cleaned_open_order.rows[o].so = session.rows[i].so
                    /\ <<cleaned_open_order.rows[o].ship>> = session.rows[i].ship
                    /\ cleaned_trailer_activity.rows[t].ship
                          = cleaned_open_order.rows[o].ship

\* two order rows of one SO Number with two shipments, both with a trailer
\* visit, and one dock row of that SO Number: one fact row is stored
C30_Witness ==
    /\ outcome = "stored"
    /\ Len(open_order.rows) = 2
    /\ open_order.rows[1].so = open_order.rows[2].so
    /\ open_order.rows[1].ship # open_order.rows[2].ship
    /\ Len(cleaned_trailer_activity.rows) = 2
    /\ Len(cleaned_open_dock.rows) = 1
    /\ Len(session.rows) = 1

====
